---- MODULE Spec2Model ----
(***************************************************************************)
(* A model of the concurrency core of neon's native glue:                  *)
(*                                                                         *)
(*   - neon::EventHandler  (crates/neon-sys/native/src/neon_event.h), the  *)
(*     many-writer / single-consumer bridge into the runtime thread;       *)
(*   - neon::Task          (crates/neon-runtime/src/neon_task.h and        *)
(*     crates/neon-sys/native/src/neon_task.h), background work whose      *)
(*     completion is delivered on the runtime thread.                      *)
(*                                                                         *)
(* Every C++ statement that another thread can observe is one step.  A     *)
(* critical section of mutex_ is one step: it contains no call that can    *)
(* block.  close_ is a plain bool that close() writes and complete() reads *)
(* without synchronisation; the two orders of that write and that read are *)
(* the two outcomes the race has, and both are interleavings of the model. *)
(***************************************************************************)
EXTENDS Integers, Sequences, FiniteSets, TLC

\* ------------------------------------------------------------------ bounds
MaxItems   == 3      \* schedule() calls made on the EventHandler
NumThreads == 2      \* foreign threads calling EventHandler::schedule
MaxTasks   == 2      \* Neon_Task_Schedule calls
NumWorkers == 2      \* threads of the uv work pool
MaxArg     == 2      \* distinct rust_task payloads
NumClasses == 2      \* Neon_Class_CreateBase calls
MaxObjects == 1      \* receivers of constructor invocations
MaxMaps     == 2     \* distinct class-map pointers handed to SetClassMap
MaxSetCalls == 2     \* Neon_Class_SetClassMap calls
NumHandles  == 2     \* v8::Persistent cells owned by foreign code
MaxDispose  == 2     \* Neon_Mem_DropPersistent calls per cell
MaxHeap     == 2     \* runtime objects created for the handle comparison
MaxLocals   == 3     \* v8::Local handles made to those objects
MaxContent  == 2     \* distinct structures a runtime object can have

\* Thread identities: pool threads are 1..NumWorkers, the thread of
\* uv_default_loop() is the runtime thread.
RuntimeThread == 0
NoThread      == 0 - 1

\* Runtime values, as <<type tag, payload>>.
Null      == <<"null", 0>>        \* v8::Null(isolate_)
Undefined == <<"undefined", 0>>   \* v8::Undefined(isolate_)
Empty     == <<"empty", 0>>       \* a v8::Local that was never assigned
Unset     == <<"unset", 0>>       \* argv before Task::complete runs

Items   == 1..MaxItems
Threads == 1..NumThreads
Tasks   == 1..MaxTasks
Workers == 1..NumWorkers
Classes == 1..NumClasses
Objects == 1..MaxObjects
Records == 1..MaxObjects   \* addresses of BaseClassInstanceMetadata objects
Ptrs    == (MaxObjects + 1)..(2 * MaxObjects)   \* addresses an allocate callback can return
Maps    == 1..MaxMaps
Handles == 1..NumHandles

VARIABLES
  \* ---- EventHandler (neon_event.h)
  handlers_,     \* std::vector<HandlerData> handlers_, guarded by mutex_
  mutex_,        \* std::mutex mutex_: the thread that holds it, NoThread if free
  handlers,      \* the local vector of complete(), filled by swap
  close_,        \* bool close_
  asyncPending,  \* the coalescing "pending" mark of uv_async_t async_
  asyncState,    \* "active" | "closing" (uv_close called) | "freed" (deleted)
  ehpc,          \* runtime thread inside complete(): idle|lock|invoke|inhandler|check
  invoked,       \* per item: how often data.handler(...) was called for it
  nextItem,      \* number of items handed to schedule() so far
  spc,           \* per foreign thread: "idle" | "send" (after push, before uv_async_send)
  cpc,           \* the closing thread: "idle" | "send" | "done"
  useAfterFree,  \* an uv_async_send touched async_ after the delete
  \* ---- Task (neon_task.h)
  tpc,           \* per task: position of the task in its life
  rust_task_,    \* per task: the foreign work payload
  result_,       \* per task: void *result_
  workQueue,     \* requests handed to uv_queue_work, not yet taken by a worker
  worker,        \* per worker: the task whose execute_task it runs, 0 if none
  doneQueue,     \* finished requests waiting for the loop to run after_work_cb
  runner,        \* per task: thread running its current callback
  argv,          \* per task: the argv[2] array of Task::complete
  jsCalls,       \* log of node::MakeCallback invocations
  performCount,  \* per task: how often perform_ was called
  deleteCount,   \* per task: how often `delete task` ran
  escaped,       \* an exception left Task::complete
  context_,      \* per task: the Persistent<Context> context_, NoContext if empty
  entered,       \* stack of contexts entered on the runtime thread, current last
  realm,         \* per task: the contexts that were current at the steps of its life
  \* ---- classes and instances (neon_class_metadata.h, neon.cc)
  mstate,            \* per class: "none" | "live" | "destroyed" ClassMetadata
  construct_kernel_, \* per class: construct_kernel_ is non-null
  template_,         \* per class: "empty" | "weak" | "reset" Global template_
  templateReachable, \* per class: the runtime still references the template
  destroyCount,      \* per class: how often ~ClassMetadata ran
  class_name_,       \* per class: 0 (nullptr) or the name set by SetName
  ostate,            \* per object: "none" | "reachable" | "unreachable" | "collected"
  oclass,            \* per object: class the object is an instance of (0: none)
  callee,            \* per object: the constructor invocation that received it
  slot,              \* per object: internal field 0 (0 = never written)
  allocated,         \* per object: what allocate_callback_ returned (0 = nothing)
  rec,               \* per record id: the BaseClassInstanceMetadata
  ran,               \* per object: <<callback kind, class owning it>> that ran
  dropCount,         \* per internals pointer: drop_ calls while it was allocated
  inv,               \* the constructor invocation in flight on the runtime thread
  lastResult,        \* <<"internals", object, pointer>> of the last GetInstanceInternals
  \* ---- class map and persistent handles (neon.cc)
  holders,       \* every ClassMapHolder created, in order
  isolateData,   \* isolate data slot NEON_ISOLATE_SLOT: 0 or index in holders
  exited,        \* node ran its AtExit callbacks
  mapDrops,      \* per map: how often its drop_map_ was called
  lastMap,       \* what the last Neon_Class_GetClassMap returned
  hstate,        \* per handle: "raw" | "empty" | "holding" | "disposed"
  disposeCalls,  \* per handle: calls of Neon_Mem_DropPersistent
  fatal,         \* an invariant violation was detected (assertion / abort)
  heap,          \* runtime objects by address: the structure of each
  locals,        \* v8::Local handles in creation order: address held, 0 = empty
  sameResult,    \* <<v1, v2, result>> of the last Neon_Mem_SameHandle call
  \* ---- runtime thread
  scopes,        \* stack of open handle scopes, innermost last
  shim           \* Neon_Object_Get_String in flight: "idle" | "key" | "get"

bridgeVars == <<handlers_, mutex_, handlers, close_, asyncPending, asyncState, ehpc,
                invoked, nextItem, spc, cpc, useAfterFree>>
taskVars   == <<tpc, rust_task_, result_, workQueue, worker, doneQueue, runner,
                argv, jsCalls, performCount, deleteCount, escaped,
                context_, entered, realm>>
classVars  == <<mstate, construct_kernel_, template_, templateReachable,
                destroyCount, class_name_, ostate, oclass, callee, slot,
                allocated, rec, ran, dropCount, inv, lastResult>>
valueVars  == <<heap, locals, sameResult>>
memVars    == <<holders, isolateData, exited, mapDrops, lastMap, hstate,
                disposeCalls, fatal, valueVars>>
scopeVars  == <<scopes, shim>>
vars       == <<handlers_, mutex_, handlers, close_, asyncPending, asyncState, ehpc,
                invoked, nextItem, spc, cpc, useAfterFree,
                tpc, rust_task_, result_, workQueue, worker, doneQueue, runner,
                argv, jsCalls, performCount, deleteCount, escaped,
                context_, entered, realm,
                mstate, construct_kernel_, template_, templateReachable,
                destroyCount, class_name_, ostate, oclass, callee, slot,
                allocated, rec, ran, dropCount, inv, lastResult,
                holders, isolateData, exited, mapDrops, lastMap, hstate,
                disposeCalls, fatal, heap, locals, sameResult, scopes, shim>>

\* ==================================================== handle scopes =====

\* Nan::HandleScope / v8::HandleScope are stack objects: the constructor opens
\* a scope, the destructor closes it at every return of the function.
EnterScope(s, tag) == Append(s, tag)
ExitScopeLeak(s) == s
ExitScope(s) == SubSeq(s, 1, Len(s) - 1)

\* The runtime thread is executing directly inside the function that opened
\* the innermost scope.
InFrame(tag) == scopes # <<>> /\ scopes[Len(scopes)] = tag

\* ===================================================== EventHandler =====

\* EventHandler::EventHandler: close_(false), uv_async_init, empty handlers_.
InitBridge ==
  /\ handlers_ = <<>>
  /\ mutex_ = NoThread
  /\ handlers = <<>>
  /\ close_ = FALSE
  /\ asyncPending = FALSE
  /\ asyncState = "active"
  /\ ehpc = "idle"
  /\ invoked = [i \in Items |-> 0]
  /\ nextItem = 0
  /\ spc = [t \in Threads |-> "idle"]
  /\ cpc = "idle"
  /\ useAfterFree = FALSE

\* uv_async_send(&async_): marks the handle pending (sends coalesce).  On a
\* handle that was already deleted it is a use of freed memory.
AsyncSendLost == UNCHANGED <<asyncPending, useAfterFree>>
AsyncSend ==
  IF asyncState = "freed"
    THEN /\ useAfterFree' = TRUE
         /\ UNCHANGED asyncPending
    ELSE /\ asyncPending' = TRUE
         /\ UNCHANGED useAfterFree

\* handlers_.push_back(data), line 37: the new item goes to the end.
PushFront(q, i) == <<i>> \o q
PushBack(q, i) == Append(q, i)

\* schedule(), lines 35-38: push_back under the lock.  The owner calls no
\* method after close() (comment at lines 43-45), so a push starts only
\* while close() has not been called.
SchedulePush(t) ==
  /\ spc[t] = "idle"
  /\ cpc = "idle"
  /\ nextItem < MaxItems
  /\ mutex_ = NoThread
  /\ mutex_' = NoThread
  /\ nextItem' = nextItem + 1
  /\ handlers_' = PushBack(handlers_, nextItem + 1)
  /\ spc' = [spc EXCEPT ![t] = "send"]
  /\ UNCHANGED <<handlers, close_, asyncPending, asyncState, ehpc, invoked,
                 cpc, useAfterFree>>
  /\ UNCHANGED <<taskVars, classVars, memVars, scopeVars>>

\* schedule(), line 39.
ScheduleSend(t) ==
  /\ spc[t] = "send"
  /\ AsyncSend
  /\ spc' = [spc EXCEPT ![t] = "idle"]
  /\ UNCHANGED <<handlers_, handlers, close_, asyncState, ehpc, invoked,
                 nextItem, cpc>>
  /\ UNCHANGED <<taskVars, classVars, memVars, scopeVars, mutex_>>

\* A handler running on the runtime thread calls schedule() on its own
\* EventHandler: push and send happen inside the handler call.
HandlerSchedule ==
  /\ InFrame("drain")
  /\ ehpc = "inhandler"
  /\ cpc = "idle"
  /\ nextItem < MaxItems
  /\ mutex_ = NoThread
  /\ mutex_' = NoThread
  /\ nextItem' = nextItem + 1
  /\ handlers_' = PushBack(handlers_, nextItem + 1)
  /\ AsyncSend
  /\ UNCHANGED <<handlers, close_, asyncState, ehpc, invoked, spc, cpc>>
  /\ UNCHANGED <<taskVars, classVars, memVars, scopeVars>>

\* close(), line 46.
CloseRequest ==
  /\ cpc = "idle"
  /\ close_' = TRUE
  /\ cpc' = "send"
  /\ UNCHANGED <<handlers_, handlers, asyncPending, asyncState, ehpc, invoked,
                 nextItem, spc, useAfterFree>>
  /\ UNCHANGED <<taskVars, classVars, memVars, scopeVars, mutex_>>

\* close(), line 47.
CloseSend ==
  /\ cpc = "send"
  /\ AsyncSend
  /\ cpc' = "done"
  /\ UNCHANGED <<handlers_, handlers, close_, asyncState, ehpc, invoked,
                 nextItem, spc>>
  /\ UNCHANGED <<taskVars, classVars, memVars, scopeVars, mutex_>>

\* The loop calls the callback of an async handle only while the handle is
\* active: uv_close (line 77) stops it.
HandleActiveAlways == TRUE
HandleActive == asyncState = "active"

\* async_complete, lines 84-87: the loop consumes the pending mark and
\* calls complete().
AsyncComplete ==
  /\ scopes = <<>>
  /\ ehpc = "idle"
  /\ asyncPending
  /\ HandleActive
  /\ asyncPending' = FALSE
  /\ ehpc' = "lock"
  /\ UNCHANGED <<handlers_, handlers, close_, asyncState, invoked, nextItem,
                 spc, cpc, useAfterFree>>
  /\ UNCHANGED <<taskVars, classVars, memVars, shim, mutex_>>
  /\ scopes' = EnterScope(scopes, "drain")

\* handlers.swap(handlers_), line 68, with `handlers` freshly constructed.
SwapCopies(local, shared) == [local |-> shared, shared |-> shared]
Swap(local, shared) == [local |-> shared, shared |-> local]

\* The lock_guard of complete() (line 64) ends with its block, line 70,
\* before the for loop of line 71.
DrainUnlockAfterLoop(owner) == owner
DrainUnlock(owner) == NoThread

\* complete(), lines 62-70: one pass of the lock block.
DrainLock ==
  /\ InFrame("drain")
  /\ ehpc = "lock"
  /\ mutex_ = NoThread
  /\ mutex_' = DrainUnlock(RuntimeThread)
  /\ IF handlers_ = <<>>
       THEN /\ ehpc' = "check"
            /\ UNCHANGED <<handlers_, handlers>>
       ELSE /\ handlers' = Swap(<<>>, handlers_).local
            /\ handlers_' = Swap(<<>>, handlers_).shared
            /\ ehpc' = "invoke"
  /\ UNCHANGED <<close_, asyncPending, asyncState, invoked, nextItem, spc,
                 cpc, useAfterFree>>
  /\ UNCHANGED <<taskVars, classVars, memVars, scopeVars>>

\* complete(), line 72: data.handler(self, callback, data.rust_callback) is
\* entered for the next element of the local vector.
InvokeHandler ==
  /\ InFrame("drain")
  /\ ehpc = "invoke"
  /\ handlers # <<>>
  /\ invoked' = [invoked EXCEPT ![Head(handlers)] = @ + 1]
  /\ ehpc' = "inhandler"
  /\ UNCHANGED <<handlers_, handlers, close_, asyncPending, asyncState,
                 nextItem, spc, cpc, useAfterFree>>
  /\ UNCHANGED <<taskVars, classVars, memVars, scopeVars, mutex_>>

\* complete(), lines 71-74: the handler returns; the for loop advances, and
\* after the last element the while loop starts over.
HandlerReturn ==
  /\ InFrame("drain")
  /\ ehpc = "inhandler"
  /\ handlers' = Tail(handlers)
  /\ ehpc' = IF Tail(handlers) = <<>> THEN "lock" ELSE "invoke"
  /\ UNCHANGED <<handlers_, close_, asyncPending, asyncState, invoked,
                 nextItem, spc, cpc, useAfterFree>>
  /\ UNCHANGED <<taskVars, classVars, memVars, scopeVars, mutex_>>

\* complete(), line 76: if (close_).
CloseRequestedAlways == TRUE
CloseRequested == close_

\* async_complete, lines 84-87: the loop consumed the pending mark before it
\* called complete(), so a uv_async_send made while complete() runs is still
\* pending when complete() returns.
PendingAfterDrainCleared(p) == FALSE
PendingAfterDrain(p) == p

\* complete(), lines 76-80: the close-flag check after the drain loop.
CheckClose ==
  /\ InFrame("drain")
  /\ ehpc = "check"
  /\ asyncState' = IF CloseRequested THEN "closing" ELSE asyncState
  /\ ehpc' = "idle"
  /\ asyncPending' = PendingAfterDrain(asyncPending)
  /\ UNCHANGED <<handlers_, handlers, close_, invoked, nextItem,
                 spc, cpc, useAfterFree>>
  /\ UNCHANGED <<taskVars, classVars, memVars, shim, mutex_>>
  /\ scopes' = ExitScope(scopes)

\* The close callback of line 77-79: delete static_cast<EventHandler*>(...).
CloseCallback ==
  /\ scopes = <<>>
  /\ asyncState = "closing"
  /\ ehpc = "idle"
  /\ asyncState' = "freed"
  /\ UNCHANGED <<handlers_, handlers, close_, asyncPending, ehpc, invoked,
                 nextItem, spc, cpc, useAfterFree>>
  /\ UNCHANGED <<taskVars, classVars, memVars, scopeVars, mutex_>>

NextBridge ==
  \/ \E t \in Threads : SchedulePush(t)
  \/ \E t \in Threads : ScheduleSend(t)
  \/ HandlerSchedule
  \/ CloseRequest
  \/ CloseSend
  \/ AsyncComplete
  \/ DrainLock
  \/ InvokeHandler
  \/ HandlerReturn
  \/ CheckClose
  \/ CloseCallback

\* ============================================================= Task =====

\* Two realms of the isolate; MainContext is the one node starts in.
MainContext == "main"
Contexts == {MainContext, "other"}
NoContext == "none"
NoRealm == [scheduled |-> NoContext, before |-> NoContext,
            complete |-> NoContext, js |-> NoContext]

InitTask ==
  /\ tpc = [t \in Tasks |-> "unscheduled"]
  /\ rust_task_ = [t \in Tasks |-> [arg |-> 0, throws |-> FALSE]]
  /\ result_ = [t \in Tasks |-> 0]
  /\ workQueue = <<>>
  /\ worker = [w \in Workers |-> 0]
  /\ doneQueue = <<>>
  /\ runner = [t \in Tasks |-> NoThread]
  /\ argv = [t \in Tasks |-> <<Unset, Unset>>]
  /\ jsCalls = <<>>
  /\ performCount = [t \in Tasks |-> 0]
  /\ deleteCount = [t \in Tasks |-> 0]
  /\ escaped = FALSE
  /\ context_ = [t \in Tasks |-> NoContext]
  /\ entered = <<MainContext>>
  /\ realm = [t \in Tasks |-> NoRealm]

NoInvocation == [pc |-> "idle", obj |-> 0, class |-> 0, isNew |-> FALSE,
                 internals |-> 0]
NoCallee == [class |-> 0, isNew |-> FALSE]
NoRecord == [state |-> "none", instance |-> 0, internals |-> 0, drop |-> 0]

\* No class registered, no object, no record.
InitClass ==
  /\ mstate = [c \in Classes |-> "none"]
  /\ construct_kernel_ = [c \in Classes |-> FALSE]
  /\ template_ = [c \in Classes |-> "empty"]
  /\ templateReachable = [c \in Classes |-> FALSE]
  /\ destroyCount = [c \in Classes |-> 0]
  /\ class_name_ = [c \in Classes |-> 0]
  /\ ostate = [o \in Objects |-> "none"]
  /\ oclass = [o \in Objects |-> 0]
  /\ callee = [o \in Objects |-> NoCallee]
  /\ slot = [o \in Objects |-> 0]
  /\ allocated = [o \in Objects |-> 0]
  /\ rec = [r \in Records |-> NoRecord]
  /\ ran = [o \in Objects |-> {}]
  /\ dropCount = [p \in Ptrs |-> 0]
  /\ inv = NoInvocation
  /\ lastResult = <<"none", 0, 0>>

\* Isolate data slot NEON_ISOLATE_SLOT is null until SetClassMap; the
\* persistent cells are raw memory until Neon_Mem_NewPersistent.
InitMem ==
  /\ holders = <<>>
  /\ isolateData = 0
  /\ exited = FALSE
  /\ mapDrops = [m \in Maps |-> 0]
  /\ lastMap = 0 - 1
  /\ hstate = [h \in Handles |-> "raw"]
  /\ disposeCalls = [h \in Handles |-> 0]
  /\ fatal = FALSE
  /\ heap = <<>>
  /\ locals = <<>>
  /\ sameResult = <<0, 0, FALSE>>

InitScopes ==
  /\ scopes = <<>>
  /\ shim = "idle"

Init == InitBridge /\ InitTask /\ InitClass /\ InitMem /\ InitScopes

\* The foreign callbacks of a Task (Neon_TaskPerformCallback and
\* Neon_TaskCompleteCallback, neon.h lines 121-122) as the scenario of the
\* specification has them: perform adds the payload to itself, complete
\* turns the result into a runtime number or throws.
\* isolate->GetCurrentContext(): the context entered last on the runtime
\* thread.
CurrentContext == entered[Len(entered)]

Perform(work) == work.arg + work.arg
CompleteThrows(work, result) == work.throws
Completion(work, result) == <<"number", result>>
Exception(work, result) == <<"error", result>>

DeliveryStates == {"complete0", "complete1", "complete2"}

\* Neon_Task_Schedule (neon.cc lines 644-648): new neon::Task(...), whose
\* constructor sets result_ = nullptr, then queue_task -> uv_queue_work.
QueueWork(q, t) == Append(q, t)

NextTaskId == Cardinality({t \in Tasks : tpc[t] # "unscheduled"}) + 1

Schedule(arg, throws) ==
  /\ NextTaskId <= MaxTasks
  /\ LET t == NextTaskId IN
       /\ tpc' = [tpc EXCEPT ![t] = "queued"]
       /\ rust_task_' = [rust_task_ EXCEPT ![t] = [arg |-> arg, throws |-> throws]]
       /\ result_' = [result_ EXCEPT ![t] = 0]
       /\ workQueue' = QueueWork(workQueue, t)
       /\ context_' = [context_ EXCEPT ![t] = CurrentContext]
       /\ realm' = [realm EXCEPT ![t].scheduled = CurrentContext]
  /\ UNCHANGED <<worker, doneQueue, runner, argv, jsCalls, performCount,
                 deleteCount, escaped, entered>>
  /\ UNCHANGED <<bridgeVars, classVars, memVars, scopeVars>>

\* execute_task runs on the pool thread that took the request.
ExecOnLoop(w) == RuntimeThread
ExecThread(w) == w

\* A pool thread takes the oldest request and enters execute_task ->
\* Task::execute -> perform_(rust_task_)  (lines 83-86, 30-32).
WorkerTake(w) ==
  /\ worker[w] = 0
  /\ workQueue # <<>>
  /\ LET t == Head(workQueue) IN
       /\ worker' = [worker EXCEPT ![w] = t]
       /\ tpc' = [tpc EXCEPT ![t] = "executing"]
       /\ runner' = [runner EXCEPT ![t] = ExecThread(w)]
       /\ performCount' = [performCount EXCEPT ![t] = @ + 1]
  /\ workQueue' = Tail(workQueue)
  /\ UNCHANGED <<rust_task_, result_, doneQueue, argv, jsCalls, deleteCount,
                 escaped, context_, entered, realm>>
  /\ UNCHANGED <<bridgeVars, classVars, memVars, scopeVars>>

\* uv hands a finished request to the loop, which will run its
\* after_work_cb (uv_queue_work, lines 94-99).
PostDoneLost(q, t) == q
PostDone(q, t) == Append(q, t)

\* A pool thread returns from execute_task when its own perform_ returns;
\* uv_queue_work (lines 94-99) puts no order between the requests that
\* different pool threads are running.
WorkDoneInScheduleOrder(w) ==
  \A v \in Workers : worker[v] # 0 => worker[v] >= worker[w]
WorkDone(w) == TRUE

\* perform_ returns: result_ = perform_(rust_task_) (line 31); execute_task
\* returns and the request is posted back to the loop.
WorkerFinish(w) ==
  /\ worker[w] # 0
  /\ WorkDone(w)
  /\ LET t == worker[w] IN
       /\ result_' = [result_ EXCEPT ![t] = Perform(rust_task_[t])]
       /\ tpc' = [tpc EXCEPT ![t] = "executed"]
       /\ runner' = [runner EXCEPT ![t] = NoThread]
       /\ doneQueue' = PostDone(doneQueue, t)
  /\ worker' = [worker EXCEPT ![w] = 0]
  /\ UNCHANGED <<rust_task_, workQueue, argv, jsCalls, performCount,
                 deleteCount, escaped, context_, entered, realm>>
  /\ UNCHANGED <<bridgeVars, classVars, memVars, scopeVars>>

\* The loop thread runs one callback at a time: an after_work_cb starts
\* only when the previous one has returned.
LoopBusyIgnored == TRUE
LoopFree == \A t \in Tasks : tpc[t] \notin DeliveryStates

\* Task::complete, lines 39-40: the context of the Context::Scope is the one
\* saved in context_ by the constructor (line 27).
ContextToEnterCurrent(t) == CurrentContext
ContextToEnter(t) == context_[t]

\* complete_task (lines 88-90) enters Task::complete, lines 37-45: scopes,
\* the saved context, argv[0] = Null, argv[1] = Undefined.
AfterWork ==
  /\ scopes = <<>>
  /\ doneQueue # <<>>
  /\ LoopFree
  /\ LET t == Head(doneQueue) IN
       /\ tpc' = [tpc EXCEPT ![t] = "complete0"]
       /\ runner' = [runner EXCEPT ![t] = RuntimeThread]
       /\ argv' = [argv EXCEPT ![t] = <<Null, Undefined>>]
       /\ realm' = [realm EXCEPT ![t].before = CurrentContext]
       /\ entered' = Append(entered, ContextToEnter(t))
  /\ doneQueue' = Tail(doneQueue)
  /\ UNCHANGED <<rust_task_, result_, workQueue, worker, jsCalls,
                 performCount, deleteCount, escaped, context_>>
  /\ UNCHANGED <<bridgeVars, classVars, memVars, shim>>
  /\ scopes' = EnterScope(scopes, "task")

\* v8::TryCatch trycatch(isolate_) ... trycatch.HasCaught()  (lines 48, 54)
HasCaughtNever(thrown) == FALSE
HasCaught(thrown) == thrown

\* Lines 54-58: which slot of argv the try block fills.
FillArgvSwapped(a, thrown, exn, completion) ==
  IF HasCaught(thrown) THEN [a EXCEPT ![2] = exn]
                       ELSE [a EXCEPT ![1] = completion]
FillArgv(a, thrown, exn, completion) ==
  IF HasCaught(thrown) THEN [a EXCEPT ![1] = exn]
                       ELSE [a EXCEPT ![2] = completion]

\* Task::complete, lines 47-59: complete_(rust_task_, result_, &completion)
\* inside the TryCatch.  An exception the TryCatch does not hold leaves
\* Task::complete.
CallComplete(t) ==
  /\ InFrame("task")
  /\ tpc[t] = "complete0"
  /\ LET thrown == CompleteThrows(rust_task_[t], result_[t]) IN
       /\ argv' = [argv EXCEPT ![t] =
                     FillArgv(@, thrown,
                              Exception(rust_task_[t], result_[t]),
                              IF thrown THEN Empty
                                        ELSE Completion(rust_task_[t], result_[t]))]
       /\ escaped' = (escaped \/ (thrown /\ ~HasCaught(thrown)))
  /\ tpc' = [tpc EXCEPT ![t] = "complete1"]
  /\ realm' = [realm EXCEPT ![t].complete = CurrentContext]
  /\ UNCHANGED <<rust_task_, result_, workQueue, worker, doneQueue, runner,
                 jsCalls, performCount, deleteCount, context_, entered>>
  /\ UNCHANGED <<bridgeVars, classVars, memVars, scopeVars>>

\* Task::complete, lines 61-64: node::MakeCallback(..., callback, 2, argv),
\* then the persistent handles are reset and complete() returns.
MakeCallback(t) ==
  /\ InFrame("task")
  /\ tpc[t] = "complete1"
  /\ jsCalls' = Append(jsCalls, [task |-> t, err |-> argv[t][1],
                                 val |-> argv[t][2], thread |-> runner[t]])
  /\ tpc' = [tpc EXCEPT ![t] = "complete2"]
  /\ realm' = [realm EXCEPT ![t].js = CurrentContext]
  /\ context_' = [context_ EXCEPT ![t] = NoContext]
  /\ entered' = SubSeq(entered, 1, Len(entered) - 1)
  /\ UNCHANGED <<rust_task_, result_, workQueue, worker, doneQueue, runner,
                 argv, performCount, deleteCount, escaped>>
  /\ UNCHANGED <<bridgeVars, classVars, memVars, shim>>
  /\ scopes' = ExitScope(scopes)

\* `delete task` (line 91) is reached only when task->complete() (line 90)
\* has returned; nothing else holds the Task pointer.
DeletableBeforeDelivery(t) == tpc[t] \in {"executed", "complete2"}
Deletable(t) == tpc[t] = "complete2"

\* complete_task, line 91.
DeleteTask(t) ==
  /\ scopes = <<>>
  /\ Deletable(t)
  /\ deleteCount' = [deleteCount EXCEPT ![t] = @ + 1]
  /\ tpc' = [tpc EXCEPT ![t] = "deleted"]
  /\ runner' = [runner EXCEPT ![t] = NoThread]
  /\ UNCHANGED <<rust_task_, result_, workQueue, worker, doneQueue, argv,
                 jsCalls, performCount, escaped, context_, entered, realm>>
  /\ UNCHANGED <<bridgeVars, classVars, memVars, scopeVars>>

\* Between two callbacks of the loop the runtime thread runs code of another
\* realm: the context that isolate->GetCurrentContext() reports changes.
SwitchContext(c) ==
  /\ LoopFree
  /\ scopes = <<>>
  /\ Len(entered) = 1
  /\ c # CurrentContext
  /\ entered' = <<c>>
  /\ UNCHANGED <<tpc, rust_task_, result_, workQueue, worker, doneQueue,
                 runner, argv, jsCalls, performCount, deleteCount, escaped,
                 context_, realm>>
  /\ UNCHANGED <<bridgeVars, classVars, memVars, scopeVars>>

NextTask ==
  \/ \E arg \in 1..MaxArg, throws \in BOOLEAN : Schedule(arg, throws)
  \/ \E w \in Workers : WorkerTake(w)
  \/ \E w \in Workers : WorkerFinish(w)
  \/ AfterWork
  \/ \E t \in Tasks : CallComplete(t)
  \/ \E t \in Tasks : MakeCallback(t)
  \/ \E t \in Tasks : DeleteTask(t)


\* ============================================ classes and instances =====

NextClassId == Cardinality({c \in Classes : mstate[c] # "none"}) + 1
NextObject  == Cardinality({o \in Objects : ostate[o] # "none"}) + 1
NextRecord  == Cardinality({r \in Records : rec[r].state # "none"}) + 1
NextPtr     == MaxObjects + 1
                 + Cardinality({o \in Objects : allocated[o] # 0})
ClassIdle   == inv.pc = "idle"

\* Neon_Class_CreateBase (neon.cc lines 324-340): new BaseClassMetadata, a
\* FunctionTemplate with the shared trampoline and the metadata as its data,
\* SetTemplate (Reset + SetWeak), one internal field.
CreateBase(hasConstruct) ==
  /\ ClassIdle
  /\ NextClassId <= NumClasses
  /\ LET c == NextClassId IN
       /\ mstate' = [mstate EXCEPT ![c] = "live"]
       /\ construct_kernel_' = [construct_kernel_ EXCEPT ![c] = hasConstruct]
       /\ template_' = [template_ EXCEPT ![c] = "weak"]
       /\ templateReachable' = [templateReachable EXCEPT ![c] = TRUE]
  /\ UNCHANGED <<destroyCount, class_name_, ostate, oclass, callee, slot,
                 allocated, rec, ran, dropCount, inv, lastResult>>
  /\ UNCHANGED <<bridgeVars, taskVars, memVars, scopeVars>>

\* Neon_Class_SetName (neon.cc lines 389-400): false when the name is not a
\* runtime string, else ClassMetadata::SetName.
SetName(c, ok) ==
  /\ ClassIdle
  /\ mstate[c] = "live"
  /\ class_name_' = IF ok THEN [class_name_ EXCEPT ![c] = c] ELSE class_name_
  /\ UNCHANGED <<mstate, construct_kernel_, template_, templateReachable,
                 destroyCount, ostate, oclass, callee, slot, allocated, rec,
                 ran, dropCount, inv, lastResult>>
  /\ UNCHANGED <<bridgeVars, taskVars, memVars, scopeVars>>

\* Neon_Class_AddMethod (neon.cc lines 420-433): reads template_ and sets a
\* property of its prototype template, or returns false before that; no
\* field of the metadata is written.
AddMethod(c, ok) ==
  /\ ClassIdle
  /\ mstate[c] = "live"
  /\ UNCHANGED <<mstate, construct_kernel_, template_, templateReachable,
                 destroyCount, class_name_, ostate, oclass, callee, slot, allocated,
                 rec, ran, dropCount, inv, lastResult>>
  /\ UNCHANGED <<bridgeVars, taskVars, memVars, scopeVars>>

\* Neon_Class_HasInstance (neon.cc lines 382-387): a query of the template;
\* it writes nothing.
HasInstance(c, o) ==
  /\ ClassIdle
  /\ mstate[c] = "live"
  /\ ostate[o] = "reachable"
  /\ UNCHANGED <<mstate, construct_kernel_, template_, templateReachable,
                 destroyCount, class_name_, ostate, oclass, callee, slot,
                 allocated, rec, ran, dropCount, inv, lastResult>>
  /\ UNCHANGED <<bridgeVars, taskVars, memVars, scopeVars>>

\* info.Data() of the trampoline: the External that CreateBase attached to
\* this class's template wraps this class's metadata (neon.cc 315-316, 334-335).
TemplateDataShared(c) == 1
TemplateData(c) == c

\* Neon_Class_ConstructBaseCallback is entered (neon.cc lines 313-316) for a
\* `new` or a plain call of class c's constructor function; `this` is a
\* fresh object of the class for `new`, some other object for a call.
InvokeEnter(c, isNew) ==
  /\ ClassIdle
  /\ scopes = <<>>
  /\ mstate[c] = "live"
  /\ templateReachable[c]
  /\ NextObject <= MaxObjects
  /\ LET o == NextObject IN
       /\ ostate' = [ostate EXCEPT ![o] = "reachable"]
       /\ oclass' = [oclass EXCEPT ![o] = IF isNew THEN c ELSE 0]
       /\ callee' = [callee EXCEPT ![o] = [class |-> c, isNew |-> isNew]]
       /\ inv' = [pc |-> "entered", obj |-> o, class |-> TemplateData(c),
                  isNew |-> isNew, internals |-> 0]
  /\ scopes' = EnterScope(scopes, "ctor")
  /\ UNCHANGED <<mstate, construct_kernel_, template_, templateReachable,
                 destroyCount, class_name_, slot, allocated, rec, ran,
                 dropCount, lastResult>>
  /\ UNCHANGED <<bridgeVars, taskVars, memVars, shim>>

\* The branch of neon.cc line 317.
IsConstructCallIgnored(isNew) == TRUE
IsConstructCall(isNew) == isNew

\* neon.cc line 320 -> ClassMetadata::call (lines 79-81): call_callback_.
InvokeCall ==
  /\ inv.pc = "entered"
  /\ InFrame("ctor")
  /\ ~IsConstructCall(inv.isNew)
  /\ ran' = [ran EXCEPT ![inv.obj] = @ \cup {<<"call", inv.class>>}]
  /\ inv' = [inv EXCEPT !.pc = "done"]
  /\ UNCHANGED <<mstate, construct_kernel_, template_, templateReachable,
                 destroyCount, class_name_, ostate, oclass, callee, slot,
                 allocated, rec, dropCount, lastResult>>
  /\ UNCHANGED <<bridgeVars, taskVars, memVars, scopeVars>>

\* The test of neon_class_metadata.h lines 206-208.
AllocationFailedNever(p) == FALSE
AllocationFailed(p) == p = 0

\* BaseClassMetadata::construct, lines 205-208: allocate_callback_(&info)
\* returns null or a fresh internals pointer (the next address of the
\* foreign allocator); null ends the construction.
InvokeAllocate(p) ==
  /\ inv.pc = "entered"
  /\ InFrame("ctor")
  /\ IsConstructCall(inv.isNew)
  /\ p \in {0, NextPtr}
  /\ ran' = [ran EXCEPT ![inv.obj] = @ \cup {<<"allocate", inv.class>>}]
  /\ allocated' = [allocated EXCEPT ![inv.obj] = p]
  /\ inv' = [inv EXCEPT !.pc = IF AllocationFailed(p) THEN "done" ELSE "allocated",
                        !.internals = p]
  /\ UNCHANGED <<mstate, construct_kernel_, template_, templateReachable,
                 destroyCount, class_name_, ostate, oclass, callee, slot, rec,
                 dropCount, lastResult>>
  /\ UNCHANGED <<bridgeVars, taskVars, memVars, scopeVars>>

\* BaseClassMetadata::construct, lines 209-212: the record is created (its
\* constructor makes the weak handle to `this`) and its address is written
\* to internal field 0; construct_callback_ follows only if
\* construct_kernel_ is set.
InvokeBind ==
  /\ inv.pc = "allocated"
  /\ InFrame("ctor")
  /\ LET r == NextRecord IN
       /\ rec' = [rec EXCEPT ![r] = [state |-> "live", instance |-> inv.obj,
                                     internals |-> inv.internals,
                                     drop |-> inv.class]]
       /\ slot' = [slot EXCEPT ![inv.obj] = r]
  /\ inv' = [inv EXCEPT !.pc = IF construct_kernel_[inv.class] THEN "bound"
                                                                ELSE "done"]
  /\ UNCHANGED <<mstate, construct_kernel_, template_, templateReachable,
                 destroyCount, class_name_, ostate, oclass, callee, allocated,
                 ran, dropCount, lastResult>>
  /\ UNCHANGED <<bridgeVars, taskVars, memVars, scopeVars>>

\* What construct() does with the bool that construct_callback_ returns
\* (line 213): nothing, the record stays bound and in the slot.
RecordAfterConstructRemoved(r, ok) == IF ok THEN r ELSE NoRecord
RecordAfterConstruct(r, ok) == r

\* BaseClassMetadata::construct, lines 212-214: construct_callback_(&info).
InvokeConstruct(ok) ==
  /\ inv.pc = "bound"
  /\ InFrame("ctor")
  /\ ran' = [ran EXCEPT ![inv.obj] =
               @ \cup {<<"construct", inv.class>>}
                 \cup (IF ok THEN {} ELSE {<<"constructFailed", inv.class>>})]
  /\ rec' = [rec EXCEPT ![slot[inv.obj]] = RecordAfterConstruct(@, ok)]
  /\ inv' = [inv EXCEPT !.pc = "done"]
  /\ UNCHANGED <<mstate, construct_kernel_, template_, templateReachable,
                 destroyCount, class_name_, ostate, oclass, callee, slot, allocated,
                 dropCount, lastResult>>
  /\ UNCHANGED <<bridgeVars, taskVars, memVars, scopeVars>>

\* Neon_Class_ConstructBaseCallback returns (neon.cc line 322).
InvokeReturn ==
  /\ inv.pc = "done"
  /\ InFrame("ctor")
  /\ inv' = NoInvocation
  /\ scopes' = ExitScope(scopes)
  /\ UNCHANGED <<mstate, construct_kernel_, template_, templateReachable,
                 destroyCount, class_name_, ostate, oclass, callee, slot,
                 allocated, rec, ran, dropCount, lastResult>>
  /\ UNCHANGED <<bridgeVars, taskVars, memVars, shim>>

\* BaseClassInstanceMetadata::GetInternals through internal field 0
\* (neon.cc line 450, neon_class_metadata.h lines 159-161).
GetInternalsOfSlot(o) == slot[o]
GetInternals(o) == rec[slot[o]].internals

\* Neon_Class_GetInstanceInternals (neon.cc lines 447-451) on an object that
\* holds a record.
GetInstanceInternals(o) ==
  /\ ostate[o] = "reachable"
  /\ slot[o] # 0
  /\ rec[slot[o]].state = "live"
  /\ inv.pc \in {"idle", "bound"}
  /\ lastResult' = <<"internals", o, GetInternals(o)>>
  /\ UNCHANGED <<mstate, construct_kernel_, template_, templateReachable,
                 destroyCount, class_name_, ostate, oclass, callee, slot,
                 allocated, rec, ran, dropCount, inv>>
  /\ UNCHANGED <<bridgeVars, taskVars, memVars, scopeVars>>

\* The program drops its last reference to an object; the receiver of the
\* invocation in flight stays referenced by that invocation.
LoseReferences(o) ==
  /\ ostate[o] = "reachable"
  /\ inv.obj # o
  /\ ostate' = [ostate EXCEPT ![o] = "unreachable"]
  /\ UNCHANGED <<mstate, construct_kernel_, template_, templateReachable,
                 destroyCount, class_name_, oclass, callee, slot, allocated,
                 rec, ran, dropCount, inv, lastResult>>
  /\ UNCHANGED <<bridgeVars, taskVars, memVars, scopeVars>>

\* The handle of the record's constructor (lines 153-156) is weak: its
\* callback is due once nothing else references the object.
WeakCallbackDueAlways(r) == TRUE
WeakCallbackDue(r) == ostate[rec[r].instance] = "unreachable"

\* ~BaseClassInstanceMetadata, line 166: drop_(internals_).
DroppedPointer(r) == rec[r].internals

\* ~BaseClassInstanceMetadata, lines 164-168: drop_ is called
\* unconditionally, whatever the construct callback returned.
DropCallsUnlessFailed(r, n) ==
  IF \E e \in ran[rec[r].instance] : e[1] = "constructFailed" THEN n ELSE n + 1
DropCalls(r, n) == n + 1

\* The collector fires the weak callback of a record whose object is
\* unreachable: FinalizeInstance -> delete metadata -> instance_.Reset(),
\* drop_(internals_)  (neon_class_metadata.h lines 164-175).
FinalizeInstance(r) ==
  /\ rec[r].state = "live"
  /\ WeakCallbackDue(r)
  /\ rec' = [rec EXCEPT ![r].state = "deleted"]
  /\ dropCount' = [dropCount EXCEPT ![DroppedPointer(r)] = DropCalls(r, @)]
  /\ ran' = [ran EXCEPT ![rec[r].instance] = @ \cup {<<"drop", rec[r].drop>>}]
  /\ ostate' = [ostate EXCEPT ![rec[r].instance] = "collected"]
  /\ UNCHANGED <<mstate, construct_kernel_, template_, templateReachable,
                 destroyCount, class_name_, oclass, callee, slot, allocated,
                 inv, lastResult>>
  /\ UNCHANGED <<bridgeVars, taskVars, memVars, scopeVars>>

\* The collector reclaims an unreachable object that has no record.
CollectPlain(o) ==
  /\ ostate[o] = "unreachable"
  /\ \A r \in Records : ~(rec[r].state = "live" /\ rec[r].instance = o)
  /\ ostate' = [ostate EXCEPT ![o] = "collected"]
  /\ UNCHANGED <<mstate, construct_kernel_, template_, templateReachable,
                 destroyCount, class_name_, oclass, callee, slot, allocated,
                 rec, ran, dropCount, inv, lastResult>>
  /\ UNCHANGED <<bridgeVars, taskVars, memVars, scopeVars>>

\* Nothing references the constructor template any more: no constructor
\* function, no reachable instance, no invocation in flight.
ReleaseTemplate(c) ==
  /\ mstate[c] = "live"
  /\ templateReachable[c]
  /\ inv.class # c
  /\ \A o \in Objects : oclass[o] = c => ostate[o] # "reachable"
  /\ templateReachable' = [templateReachable EXCEPT ![c] = FALSE]
  /\ UNCHANGED <<mstate, construct_kernel_, template_, destroyCount,
                 class_name_, ostate, oclass, callee, slot, allocated, rec,
                 ran, dropCount, inv, lastResult>>
  /\ UNCHANGED <<bridgeVars, taskVars, memVars, scopeVars>>

\* The weak callback registered by SetTemplate (lines 68-71) fires once the
\* template is unreachable.
TemplateCollectableAlways(c) == TRUE
TemplateCollectable(c) == ~templateReachable[c]

\* FinalizeTemplate -> delete metadata -> ~ClassMetadata: template_.Reset()
\* and the cached strings are freed (lines 116-139); the fields of the
\* deleted object are gone with it.
FinalizeTemplate(c) ==
  /\ mstate[c] = "live"
  /\ template_[c] = "weak"
  /\ TemplateCollectable(c)
  /\ inv.class # c
  /\ mstate' = [mstate EXCEPT ![c] = "destroyed"]
  /\ template_' = [template_ EXCEPT ![c] = "reset"]
  /\ class_name_' = [class_name_ EXCEPT ![c] = 0]
  /\ destroyCount' = [destroyCount EXCEPT ![c] = @ + 1]
  /\ construct_kernel_' = [construct_kernel_ EXCEPT ![c] = FALSE]
  /\ UNCHANGED <<templateReachable, ostate, oclass, callee,
                 slot, allocated, rec, ran, dropCount, inv, lastResult>>
  /\ UNCHANGED <<bridgeVars, taskVars, memVars, scopeVars>>

\* Class registration, the foreign operations on a registered class,
\* constructor invocations and the lifetime of the template.
NextClass ==
  \/ \E b \in BOOLEAN : CreateBase(b)
  \/ \E c \in Classes, ok \in BOOLEAN : SetName(c, ok)
  \/ \E c \in Classes, ok \in BOOLEAN : AddMethod(c, ok)
  \/ \E c \in Classes, o \in Objects : HasInstance(c, o)
  \/ \E c \in Classes, isNew \in BOOLEAN : InvokeEnter(c, isNew)
  \/ InvokeCall
  \/ \E p \in {0} \cup Ptrs : InvokeAllocate(p)
  \/ InvokeBind
  \/ \E ok \in BOOLEAN : InvokeConstruct(ok)
  \/ InvokeReturn
  \/ \E o \in Objects : LoseReferences(o)
  \/ \E c \in Classes : ReleaseTemplate(c)
  \/ \E c \in Classes : FinalizeTemplate(c)

SpecClass == Init /\ [][NextClass]_vars

\* Constructor invocations and the lifetime of the instances they make.
NextInstance ==
  \/ \E b \in BOOLEAN : CreateBase(b)
  \/ \E c \in Classes, isNew \in BOOLEAN : InvokeEnter(c, isNew)
  \/ InvokeCall
  \/ \E p \in {0} \cup Ptrs : InvokeAllocate(p)
  \/ InvokeBind
  \/ \E ok \in BOOLEAN : InvokeConstruct(ok)
  \/ InvokeReturn
  \/ \E o \in Objects : GetInstanceInternals(o)
  \/ \E o \in Objects : LoseReferences(o)
  \/ \E r \in Records : FinalizeInstance(r)
  \/ \E o \in Objects : CollectPlain(o)

SpecInstance == Init /\ [][NextInstance]_vars

\* ------------------------------------------- the neon-sys class metadata --

\* neon-sys BaseClassMetadata::construct (neon-sys neon_class_metadata.h
\* lines 131-136) after a successful allocation: the internals pointer
\* itself is written to internal field 0; no record is created and no weak
\* handle is made.  construct_callback_ follows only if construct_kernel_
\* is set.
SysInvokeBind ==
  /\ inv.pc = "allocated"
  /\ InFrame("ctor")
  /\ slot' = [slot EXCEPT ![inv.obj] = inv.internals]
  /\ inv' = [inv EXCEPT !.pc = IF construct_kernel_[inv.class] THEN "bound"
                                                                ELSE "done"]
  /\ UNCHANGED <<mstate, construct_kernel_, template_, templateReachable,
                 destroyCount, class_name_, ostate, oclass, callee, allocated,
                 rec, ran, dropCount, lastResult>>
  /\ UNCHANGED <<bridgeVars, taskVars, memVars, scopeVars>>

\* neon-sys BaseClassMetadata::construct, line 136: construct_callback_(&info);
\* the trampoline (neon-sys neon.cc line 258) does not use the bool.
SysInvokeConstruct(ok) ==
  /\ inv.pc = "bound"
  /\ InFrame("ctor")
  /\ ran' = [ran EXCEPT ![inv.obj] =
               @ \cup {<<"construct", inv.class>>}
                 \cup (IF ok THEN {} ELSE {<<"constructFailed", inv.class>>})]
  /\ inv' = [inv EXCEPT !.pc = "done"]
  /\ UNCHANGED <<mstate, construct_kernel_, template_, templateReachable,
                 destroyCount, class_name_, ostate, oclass, callee, slot,
                 allocated, rec, dropCount, lastResult>>
  /\ UNCHANGED <<bridgeVars, taskVars, memVars, scopeVars>>

\* What a read of the internals_ field yields when internal field 0 does not
\* point to a record but to the foreign code's internals: the memory at that
\* address reinterpreted, any pointer-sized value.
ReinterpretedField == 0 .. (2 * MaxObjects)

\* NeonSys_Class_GetInstanceInternals (neon-sys neon.cc lines 372-374): the
\* content of internal field 0 is cast to BaseClassInstanceMetadata* and its
\* GetInternals() is returned.
SysGetInstanceInternals(o, v) ==
  /\ ostate[o] = "reachable"
  /\ slot[o] # 0
  /\ inv.pc \in {"idle", "bound"}
  /\ IF slot[o] \in Records THEN v = rec[slot[o]].internals
                            ELSE v \in ReinterpretedField
  /\ lastResult' = <<"internals", o, v>>
  /\ UNCHANGED <<mstate, construct_kernel_, template_, templateReachable,
                 destroyCount, class_name_, ostate, oclass, callee, slot,
                 allocated, rec, ran, dropCount, inv>>
  /\ UNCHANGED <<bridgeVars, taskVars, memVars, scopeVars>>

\* Constructor invocations of classes registered through the neon-sys
\* metadata, and the lifetime of their instances.
NextSysInstance ==
  \/ \E b \in BOOLEAN : CreateBase(b)
  \/ \E c \in Classes, isNew \in BOOLEAN : InvokeEnter(c, isNew)
  \/ InvokeCall
  \/ \E p \in {0} \cup Ptrs : InvokeAllocate(p)
  \/ SysInvokeBind
  \/ \E ok \in BOOLEAN : SysInvokeConstruct(ok)
  \/ InvokeReturn
  \/ \E o \in Objects, v \in ReinterpretedField : SysGetInstanceInternals(o, v)
  \/ \E o \in Objects : LoseReferences(o)
  \/ \E o \in Objects : CollectPlain(o)

SpecSysInstance == Init /\ [][NextSysInstance]_vars

\* ================================================== scopes of the shims ==

\* Foreign code runs on the runtime thread at top level of a native call
\* and inside the callbacks the entry points invoke: a handler of the drain,
\* complete_ of a Task, the construct callback of the trampoline.
ForeignCodeRunning ==
  \/ scopes = <<>>
  \/ ehpc = "inhandler"
  \/ \E t \in Tasks : tpc[t] = "complete0"
  \/ inv.pc = "bound"

ShimActive == shim \in {"key", "get"}

\* Neon_Object_Get_String is entered (neon.cc lines 133-134): HandleScope.
ShimEnter ==
  /\ ~ShimActive
  /\ ForeignCodeRunning
  /\ shim' = "key"
  /\ scopes' = EnterScope(scopes, "shim")
  /\ UNCHANGED <<bridgeVars, taskVars, classVars, memVars>>

\* Lines 135-138: Neon_ASCII_Key; `return false` when the key cannot be
\* made.
ShimKey(ok) ==
  /\ shim = "key"
  /\ InFrame("shim")
  /\ IF ok THEN /\ shim' = "get"
                /\ UNCHANGED scopes
           ELSE /\ shim' = "false"
                /\ scopes' = ExitScope(scopes)
  /\ UNCHANGED <<bridgeVars, taskVars, classVars, memVars>>

\* Lines 139-146: Nan::Get; `return false` when it yields nothing, else the
\* out handle is reset to the result and the shim returns true.
ShimGet(ok) ==
  /\ shim = "get"
  /\ InFrame("shim")
  /\ shim' = IF ok THEN "true" ELSE "false"
  /\ scopes' = ExitScope(scopes)
  /\ UNCHANGED <<bridgeVars, taskVars, classVars, memVars>>

\* The loop is about to run its callbacks: every Task has been executed by
\* the pool and posted back, foreign threads have scheduled items on the
\* EventHandler and signalled it, its owner has or has not called close(),
\* and one class with a construct kernel is registered.
InitScope ==
  /\ handlers_ = [i \in 1..(MaxItems - 1) |-> i]
  /\ mutex_ = NoThread
  /\ handlers = <<>>
  /\ asyncPending = TRUE
  /\ asyncState = "active"
  /\ ehpc = "idle"
  /\ invoked = [i \in Items |-> 0]
  /\ nextItem = MaxItems - 1
  /\ spc = [t \in Threads |-> "idle"]
  /\ \E closed \in BOOLEAN :
       /\ close_ = closed
       /\ cpc = IF closed THEN "done" ELSE "idle"
  /\ useAfterFree = FALSE
  /\ tpc = [t \in Tasks |-> "executed"]
  /\ \E throws \in BOOLEAN :
       rust_task_ = [t \in Tasks |-> [arg |-> 1, throws |-> throws]]
  /\ result_ = [t \in Tasks |-> Perform(rust_task_[t])]
  /\ workQueue = <<>>
  /\ worker = [w \in Workers |-> 0]
  /\ doneQueue = [i \in 1..MaxTasks |-> i]
  /\ runner = [t \in Tasks |-> NoThread]
  /\ argv = [t \in Tasks |-> <<Unset, Unset>>]
  /\ jsCalls = <<>>
  /\ performCount = [t \in Tasks |-> 1]
  /\ deleteCount = [t \in Tasks |-> 0]
  /\ escaped = FALSE
  /\ context_ = [t \in Tasks |-> MainContext]
  /\ entered = <<MainContext>>
  /\ realm = [t \in Tasks |-> [NoRealm EXCEPT !.scheduled = MainContext]]
  /\ mstate = [c \in Classes |-> IF c = 1 THEN "live" ELSE "none"]
  /\ construct_kernel_ = [c \in Classes |-> c = 1]
  /\ template_ = [c \in Classes |-> IF c = 1 THEN "weak" ELSE "empty"]
  /\ templateReachable = [c \in Classes |-> c = 1]
  /\ destroyCount = [c \in Classes |-> 0]
  /\ class_name_ = [c \in Classes |-> 0]
  /\ ostate = [o \in Objects |-> "none"]
  /\ oclass = [o \in Objects |-> 0]
  /\ callee = [o \in Objects |-> NoCallee]
  /\ slot = [o \in Objects |-> 0]
  /\ allocated = [o \in Objects |-> 0]
  /\ rec = [r \in Records |-> NoRecord]
  /\ ran = [o \in Objects |-> {}]
  /\ dropCount = [p \in Ptrs |-> 0]
  /\ inv = NoInvocation
  /\ lastResult = <<"none", 0, 0>>
  /\ InitMem
  /\ InitScopes

\* What the runtime thread does: the entry points that cross the boundary
\* and the shims foreign code calls from inside them.
NextScope ==
  \/ AfterWork
  \/ \E t \in Tasks : CallComplete(t)
  \/ \E t \in Tasks : MakeCallback(t)
  \/ \E t \in Tasks : DeleteTask(t)
  \/ AsyncComplete
  \/ DrainLock
  \/ InvokeHandler
  \/ HandlerSchedule
  \/ HandlerReturn
  \/ CheckClose
  \/ CloseCallback
  \/ \E c \in Classes, isNew \in BOOLEAN : InvokeEnter(c, isNew)
  \/ InvokeCall
  \/ \E p \in {0} \cup Ptrs : InvokeAllocate(p)
  \/ InvokeBind
  \/ \E ok \in BOOLEAN : InvokeConstruct(ok)
  \/ InvokeReturn
  \/ ShimEnter
  \/ \E ok \in BOOLEAN : ShimKey(ok)
  \/ \E ok \in BOOLEAN : ShimGet(ok)

SpecScope == InitScope /\ [][NextScope]_vars

\* ============================================= class map, persistents ====

\* ClassMapHolder::GetMap behind Neon_Class_GetClassMap (neon.cc 342-347).
GetClassMapResult ==
  IF isolateData = 0 THEN 0 ELSE holders[isolateData].map

\* Neon_Class_GetClassMap (neon.cc lines 342-347).
GetClassMap ==
  /\ ~exited
  /\ lastMap' = GetClassMapResult
  /\ UNCHANGED <<holders, isolateData, exited, mapDrops, hstate, disposeCalls,
                 fatal>>
  /\ UNCHANGED <<bridgeVars, taskVars, classVars, scopeVars, valueVars>>

\* Neon_Class_SetClassMap (neon.cc lines 354-359): a new holder, stored in
\* the isolate slot and registered with node::AtExit.
SetClassMap(m) ==
  /\ ~exited
  /\ Len(holders) < MaxSetCalls
  /\ holders' = Append(holders, [map |-> m, live |-> TRUE])
  /\ isolateData' = Len(holders) + 1
  /\ UNCHANGED <<exited, mapDrops, lastMap, hstate, disposeCalls, fatal>>
  /\ UNCHANGED <<bridgeVars, taskVars, classVars, scopeVars, valueVars>>

\* node runs every registered cleanup_class_map (neon.cc lines 349-352):
\* delete holder -> ~ClassMapHolder -> drop_map_(map_).
AtExit ==
  /\ ~exited
  /\ exited' = TRUE
  /\ holders' = [i \in 1..Len(holders) |-> [holders[i] EXCEPT !.live = FALSE]]
  /\ mapDrops' = [m \in Maps |->
                    mapDrops[m] + Cardinality({i \in 1..Len(holders) :
                                                 holders[i].live /\ holders[i].map = m})]
  /\ UNCHANGED <<isolateData, lastMap, hstate, disposeCalls, fatal>>
  /\ UNCHANGED <<bridgeVars, taskVars, classVars, scopeVars, valueVars>>

\* Neon_Mem_NewPersistent (neon.cc lines 625-627): placement new of an empty
\* v8::Persistent.
NewPersistent(h) ==
  /\ hstate[h] = "raw"
  /\ hstate' = [hstate EXCEPT ![h] = "empty"]
  /\ UNCHANGED <<holders, isolateData, exited, mapDrops, lastMap, disposeCalls,
                 fatal>>
  /\ UNCHANGED <<bridgeVars, taskVars, classVars, scopeVars, valueVars>>

\* Neon_Mem_ResetPersistent (neon.cc lines 639-642).
ResetPersistent(h) ==
  /\ hstate[h] \in {"empty", "holding"}
  /\ hstate' = [hstate EXCEPT ![h] = "holding"]
  /\ UNCHANGED <<holders, isolateData, exited, mapDrops, lastMap, disposeCalls,
                 fatal>>
  /\ UNCHANGED <<bridgeVars, taskVars, classVars, scopeVars, valueVars>>

\* Neon_Mem_DropPersistent (neon.cc lines 629-633): p->Reset() and the
\* destructor.  Reset() of a cell that holds nothing does nothing, and the
\* function has no check of its own, so a repeated call returns normally.
DropPersistent(h) ==
  /\ hstate[h] \in {"empty", "holding", "disposed"}
  /\ disposeCalls[h] < MaxDispose
  /\ hstate' = [hstate EXCEPT ![h] = "disposed"]
  /\ disposeCalls' = [disposeCalls EXCEPT ![h] = @ + 1]
  /\ UNCHANGED fatal
  /\ UNCHANGED <<holders, isolateData, exited, mapDrops, lastMap>>
  /\ UNCHANGED <<bridgeVars, taskVars, classVars, scopeVars, valueVars>>

NextMem ==
  \/ GetClassMap
  \/ \E m \in Maps : SetClassMap(m)
  \/ AtExit
  \/ \E h \in Handles : NewPersistent(h)
  \/ \E h \in Handles : ResetPersistent(h)
  \/ \E h \in Handles : DropPersistent(h)

SpecMem == Init /\ [][NextMem]_vars

\* ================================================== handle comparison ====

\* A new runtime object with the given structure; the caller gets a Local
\* to it.
NewObject(c) ==
  /\ Len(heap) < MaxHeap
  /\ Len(locals) < MaxLocals
  /\ heap' = Append(heap, c)
  /\ locals' = Append(locals, Len(heap) + 1)
  /\ UNCHANGED sameResult
  /\ UNCHANGED <<holders, isolateData, exited, mapDrops, lastMap, hstate,
                 disposeCalls, fatal>>
  /\ UNCHANGED <<bridgeVars, taskVars, classVars, scopeVars>>

\* v8::Local<v8::Value>(): a handle that holds nothing.
NewEmptyLocal ==
  /\ Len(locals) < MaxLocals
  /\ locals' = Append(locals, 0)
  /\ UNCHANGED <<heap, sameResult>>
  /\ UNCHANGED <<holders, isolateData, exited, mapDrops, lastMap, hstate,
                 disposeCalls, fatal>>
  /\ UNCHANGED <<bridgeVars, taskVars, classVars, scopeVars>>

\* A second Local to the object an existing Local holds (Nan::New of a
\* handle, as in Neon_Mem_ReadPersistent, neon.cc lines 635-637).
CopyLocal(l) ==
  /\ l \in DOMAIN locals
  /\ locals[l] # 0
  /\ Len(locals) < MaxLocals
  /\ locals' = Append(locals, locals[l])
  /\ UNCHANGED <<heap, sameResult>>
  /\ UNCHANGED <<holders, isolateData, exited, mapDrops, lastMap, hstate,
                 disposeCalls, fatal>>
  /\ UNCHANGED <<bridgeVars, taskVars, classVars, scopeVars>>

StructureOf(a) == IF a = 0 THEN 0 ELSE heap[a]

\* Neon_Mem_SameHandle (native/src/neon.cc lines 514-516): v1 == v2 of two
\* v8::Local, which compares the addresses the handles hold; two empty
\* handles are equal, an empty and a non-empty one are not.
SameHandleStructural(a, b) == StructureOf(a) = StructureOf(b)
SameHandle(a, b) ==
  IF a = 0 THEN b = 0
  ELSE IF b = 0 THEN FALSE
  ELSE a = b

CallSameHandle(v1, v2) ==
  /\ v1 \in DOMAIN locals
  /\ v2 \in DOMAIN locals
  /\ sameResult' = <<v1, v2, SameHandle(locals[v1], locals[v2])>>
  /\ UNCHANGED <<heap, locals>>
  /\ UNCHANGED <<holders, isolateData, exited, mapDrops, lastMap, hstate,
                 disposeCalls, fatal>>
  /\ UNCHANGED <<bridgeVars, taskVars, classVars, scopeVars>>

NextHandle ==
  \/ \E c \in 1..MaxContent : NewObject(c)
  \/ NewEmptyLocal
  \/ \E l \in 1..MaxLocals : CopyLocal(l)
  \/ \E v1, v2 \in 1..MaxLocals : CallSameHandle(v1, v2)

SpecHandle == Init /\ [][NextHandle]_vars

SpecBridge == Init /\ [][NextBridge]_vars

SpecTask == Init /\ [][NextTask]_vars

\* Tasks scheduled and delivered while the runtime thread moves between
\* realms.
NextContext ==
  \/ \E throws \in BOOLEAN : Schedule(1, throws)
  \/ \E w \in Workers : WorkerTake(w)
  \/ \E w \in Workers : WorkerFinish(w)
  \/ AfterWork
  \/ \E t \in Tasks : CallComplete(t)
  \/ \E t \in Tasks : MakeCallback(t)
  \/ \E t \in Tasks : DeleteTask(t)
  \/ \E c \in Contexts : SwitchContext(c)

SpecContext == Init /\ [][NextContext]_vars

\* The loop thread keeps running and handlers return; a thread that is
\* inside schedule() or close() reaches the uv_async_send of that call.
FairBridge ==
  /\ WF_vars(AsyncComplete)
  /\ WF_vars(DrainLock)
  /\ WF_vars(InvokeHandler)
  /\ WF_vars(HandlerReturn)
  /\ WF_vars(CheckClose)
  /\ WF_vars(CloseCallback)
  /\ WF_vars(CloseSend)
  /\ \A t \in Threads : WF_vars(ScheduleSend(t))

FairSpecBridge == Init /\ [][NextBridge]_vars /\ FairBridge

\* The pool threads and the loop thread keep running, and perform returns.
FairTask ==
  /\ \A w \in Workers : WF_vars(WorkerTake(w)) /\ WF_vars(WorkerFinish(w))
  /\ WF_vars(AfterWork)
  /\ \A t \in Tasks : /\ WF_vars(CallComplete(t))
                      /\ WF_vars(MakeCallback(t))
                      /\ WF_vars(DeleteTask(t))

FairSpecTask == Init /\ [][NextTask]_vars /\ FairTask

\* ============================================================ claims =====

Released == asyncState # "active"

\* C1: every item enqueued before close() was requested has had its handler
\* invoked by the time the EventHandler has called uv_close.  (A push starts
\* only before close(), so these are the items 1..nextItem.)
C1_DrainedBeforeRelease ==
  Released => \A i \in 1..nextItem : invoked[i] >= 1

\* C2: whenever the EventHandler has released its wakeup resource, the
\* mutex-guarded pending list handlers_ is empty.
C2_PendingEmptyAtRelease ==
  Released => handlers_ = <<>>

\* C3: no item's handler is invoked more than once.
C3_AtMostOnce ==
  \A i \in Items : invoked[i] <= 1

\* C3 case: every item was delivered and a wakeup signal is still
\* outstanding although nothing is left to deliver.
C3_Witness ==
  /\ nextItem = MaxItems
  /\ \A i \in Items : invoked[i] = 1
  /\ asyncPending
  /\ ehpc = "idle"

\* C4: once uv_close has been called, no step invokes a handler.
C4_NoHandlerAfterRelease ==
  [][Released => invoked' = invoked]_vars

\* C4 case: released while a wakeup signal is outstanding.
C4_Witness ==
  /\ Released
  /\ asyncPending
  /\ \E i \in Items : invoked[i] = 1

CallsFor(t) == {i \in 1..Len(jsCalls) : jsCalls[i].task = t}
Scheduled(t) == tpc[t] # "unscheduled"
AfterCallback(t) == tpc[t] \in {"complete2", "deleted"}

\* C5: a Task whose complete does not throw has its JS callback invoked at
\* most once before and exactly once after delivery, with (null, the value
\* complete made from what perform returned for this Task).
C5_SuccessCallback ==
  \A t \in Tasks :
    (Scheduled(t) /\ ~rust_task_[t].throws) =>
      /\ Cardinality(CallsFor(t)) <= 1
      /\ AfterCallback(t) => Cardinality(CallsFor(t)) = 1
      /\ \A i \in CallsFor(t) :
           /\ jsCalls[i].err = Null
           /\ jsCalls[i].val = <<"number", rust_task_[t].arg + rust_task_[t].arg>>

\* C5 case: two delivered Tasks with different payloads, one not throwing.
C5_Witness ==
  \E t, u \in Tasks :
    /\ tpc[t] = "deleted" /\ ~rust_task_[t].throws
    /\ tpc[u] = "deleted" /\ rust_task_[u].arg # rust_task_[t].arg

\* C6: a Task whose complete throws has its JS callback invoked exactly
\* once with (the exception, undefined), and no exception leaves
\* Task::complete.
C6_ThrowCallback ==
  /\ ~escaped
  /\ \A t \in Tasks :
       (Scheduled(t) /\ rust_task_[t].throws) =>
         /\ Cardinality(CallsFor(t)) <= 1
         /\ AfterCallback(t) => Cardinality(CallsFor(t)) = 1
         /\ \A i \in CallsFor(t) :
              /\ jsCalls[i].err = <<"error", rust_task_[t].arg + rust_task_[t].arg>>
              /\ jsCalls[i].val = Undefined

\* C6 case: a Task whose complete threw has been delivered.
C6_Witness ==
  \E t \in Tasks : tpc[t] = "deleted" /\ rust_task_[t].throws

\* C7: deliveries run on the runtime thread and never overlap.
C7_DeliveryExclusive ==
  /\ \A t \in Tasks : tpc[t] \in DeliveryStates => runner[t] = RuntimeThread
  /\ Cardinality({t \in Tasks : tpc[t] \in DeliveryStates}) <= 1
  /\ \A i \in 1..Len(jsCalls) : jsCalls[i].thread = RuntimeThread

\* C7 case: one Task is in the middle of its delivery while another has
\* finished on its pool thread and waits for the loop.
C7_Witness ==
  /\ \E t \in Tasks : tpc[t] = "complete1"
  /\ doneQueue # <<>>

\* C8: every scheduled Task is eventually delivered and destroyed.
C8_EventuallyDelivered ==
  \A t \in Tasks :
    (tpc[t] = "queued") ~> (tpc[t] = "deleted" /\ Cardinality(CallsFor(t)) = 1)

\* C8 case: all Tasks were scheduled and have been destroyed.
C8_Witness ==
  \A t \in Tasks : tpc[t] = "deleted"

\* C9: a Task is destroyed at most once, only after its JS callback was
\* invoked, and never while Pending, Executing or Completed.
C9_DestroyedOnceAfterCallback ==
  \A t \in Tasks :
    /\ deleteCount[t] <= 1
    /\ (deleteCount[t] = 1) <=> (tpc[t] = "deleted")
    /\ deleteCount[t] = 1 => Cardinality(CallsFor(t)) = 1

\* C9 case: a Task was destroyed while another is still executing.
C9_Witness ==
  \E t, u \in Tasks : deleteCount[t] = 1 /\ tpc[u] = "executing"

StateOrder ==
  { <<"unscheduled", "queued">>, <<"queued", "executing">>,
    <<"executing", "executed">>, <<"executed", "complete0">>,
    <<"complete0", "complete1">>, <<"complete1", "complete2">>,
    <<"complete2", "deleted">> }

\* C10: a Task only moves forward through Pending (queued), Executing,
\* Completed (executed), Delivered; perform runs once, on a pool thread, and
\* complete runs only after perform has returned its result.
C10_StateOrder ==
  [][\A t \in Tasks :
       /\ tpc'[t] # tpc[t] => <<tpc[t], tpc'[t]>> \in StateOrder
       /\ performCount'[t] <= 1
       /\ tpc'[t] = "executing" => runner'[t] \in Workers
       /\ tpc'[t] \in DeliveryStates =>
            /\ performCount'[t] = 1
            /\ result_'[t] = Perform(rust_task_'[t])
            /\ \A w \in Workers : worker'[w] # t]_vars

\* C10 case: complete is running for a Task whose perform has returned.
C10_Witness ==
  \E t \in Tasks : tpc[t] = "complete0" /\ performCount[t] = 1

\* ---------------------------------------------------- classes, instances

RecordsOf(o) == {r \in Records : rec[r].state # "none" /\ rec[r].instance = o}
LiveRecordsOf(o) == {r \in RecordsOf(o) : rec[r].state = "live"}
Kinds(o) == {e[1] : e \in ran[o]}
Returned(o) == callee[o].class # 0 /\ inv.obj # o

\* C11: an invocation of a class's constructor without `new` runs only that
\* class's call callback: allocate and construct never run for it, no
\* instance record is created for the receiver and its internal slot is
\* never written.
C11_PlainCallOnlyCalls ==
  \A o \in Objects :
    (callee[o].class # 0 /\ ~callee[o].isNew) =>
      /\ ran[o] \subseteq {<<"call", callee[o].class>>}
      /\ Returned(o) => ran[o] = {<<"call", callee[o].class>>}
      /\ RecordsOf(o) = {}
      /\ slot[o] = 0
      /\ allocated[o] = 0

\* C11 case: a plain call of a registered class has returned.
C11_Witness ==
  \E o \in Objects :
    /\ Returned(o)
    /\ ~callee[o].isNew
    /\ <<"call", callee[o].class>> \in ran[o]

\* C12: when the allocate callback of a `new` invocation returns no
\* internals, no instance record is created, the internal slot is not
\* written, the construct callback is not run and the drop callback is
\* never invoked for the object.
C12_AllocateFailureNoState ==
  \A o \in Objects :
    (callee[o].isNew /\ "allocate" \in Kinds(o) /\ allocated[o] = 0) =>
      /\ RecordsOf(o) = {}
      /\ slot[o] = 0
      /\ Kinds(o) = {"allocate"}

\* C12 case: a `new` whose allocation failed has returned and the object
\* has been collected.
C12_Witness ==
  \E o \in Objects :
    /\ callee[o].isNew
    /\ "allocate" \in Kinds(o)
    /\ allocated[o] = 0
    /\ ostate[o] = "collected"

Constructed(o) ==
  /\ callee[o].isNew
  /\ allocated[o] # 0
  /\ slot[o] # 0
  /\ "constructFailed" \notin Kinds(o)
  /\ Returned(o)

\* C14: the drop callback is invoked with an instance's internals only by
\* the weak finalizer of that instance, which fires only when the object is
\* unreachable; the finalizer invokes it exactly once for those internals,
\* and no pointer is ever dropped a second time.
C14_DropOnceAfterFinalizer ==
  [][/\ \A p \in Ptrs :
          /\ dropCount'[p] <= 1
          /\ dropCount'[p] # dropCount[p] =>
               \E r \in Records :
                 /\ rec[r].state = "live"
                 /\ rec[r].internals = p
                 /\ ostate[rec[r].instance] = "unreachable"
                 /\ rec'[r].state = "deleted"
     /\ \A r \in Records :
          (rec[r].state = "live" /\ rec'[r].state # "live") =>
             /\ rec[r].internals \in Ptrs
             /\ dropCount[rec[r].internals] = 0
             /\ dropCount'[rec[r].internals] = 1
             /\ <<"drop", rec[r].drop>> \in ran'[rec[r].instance]
     /\ \A o \in Objects :
          (Constructed(o) /\ ostate'[o] = "collected" /\ ostate[o] # "collected") =>
             dropCount'[allocated[o]] = 1]_vars

\* C14 case: a successfully constructed instance has been finalized and its
\* internals dropped.
C14_Witness ==
  \E o \in Objects :
    /\ Constructed(o)
    /\ "construct" \in Kinds(o)
    /\ ostate[o] = "collected"
    /\ dropCount[allocated[o]] = 1

Bound(o) ==
  /\ callee[o].isNew
  /\ allocated[o] # 0
  /\ ostate[o] \in {"reachable", "unreachable"}
  /\ inv.obj = o => inv.pc \in {"bound", "done"}

\* C15: every live object made by `new` with a successful allocation has
\* exactly one instance record, the one in its internal slot, and
\* GetInstanceInternals returns the pointer the allocate callback returned
\* for that object, until the drop.
C15_OneRecordAndInternals ==
  /\ \A o \in Objects :
       Bound(o) =>
         /\ Cardinality(LiveRecordsOf(o)) = 1
         /\ RecordsOf(o) = {slot[o]}
         /\ GetInternals(o) = allocated[o]
         /\ dropCount[allocated[o]] = 0
  /\ lastResult[1] = "internals" => lastResult[3] = allocated[lastResult[2]]

\* C15 case: GetInstanceInternals has returned the internals of a live
\* instance.
C15_Witness ==
  \E o \in Objects :
    /\ Bound(o)
    /\ lastResult = <<"internals", o, allocated[o]>>

\* C16: a ClassMetadata is destroyed at most once, and only in a step taken
\* while its template handle is weak and nothing references the template;
\* that step releases the template handle. No other step (CreateBase,
\* SetName, AddMethod, HasInstance, a constructor invocation) destroys it.
C16_DestroyedOnceByFinalizer ==
  [][\A c \in Classes :
       /\ destroyCount'[c] <= 1
       /\ (mstate[c] = "destroyed") => (mstate'[c] = "destroyed")
       /\ (destroyCount'[c] # destroyCount[c]) =>
            (mstate[c] = "live" /\ mstate'[c] = "destroyed")
       /\ (mstate[c] = "live" /\ mstate'[c] # "live") =>
            /\ mstate'[c] = "destroyed"
            /\ template_[c] = "weak"
            /\ ~templateReachable[c]
            /\ template_'[c] = "reset"
            /\ destroyCount'[c] = destroyCount[c] + 1
            /\ inv' = inv
            /\ inv.class # c
            /\ class_name_' = [class_name_ EXCEPT ![c] = 0]
       /\ (mstate'[c] = "live") => (template_'[c] = "weak")]_vars

\* C16 case: a class that was named and invoked has been destroyed while
\* another class is still registered.
C16_Witness ==
  \E c \in Classes :
    /\ mstate[c] = "destroyed"
    /\ destroyCount[c] = 1
    /\ template_[c] = "reset"
    /\ \E o \in Objects : callee[o].class = c
    /\ \E d \in Classes : mstate[d] = "live" /\ class_name_[d] # 0

LiveHolders == {i \in 1..Len(holders) : holders[i].live}

\* C17: once a map has been set there is exactly one ClassMapHolder (never
\* two), GetClassMap returns null before the first SetClassMap and the
\* holder's map afterwards, and at shutdown each map's drop callback has
\* been called exactly once.
C17_OneClassMapHolder ==
  /\ Cardinality(LiveHolders) <= 1
  /\ (holders # <<>> /\ ~exited) => Cardinality(LiveHolders) = 1
  /\ holders = <<>> => GetClassMapResult = 0
  /\ holders # <<>> => \E i \in 1..Len(holders) : GetClassMapResult = holders[i].map
  /\ exited => \A i \in 1..Len(holders) : mapDrops[holders[i].map] = 1

\* C18: whatever classes are registered, every callback that runs for an
\* invocation of class C's constructor (call, allocate, construct, and the
\* drop of the instance it made) is C's own: the trampoline selects the
\* metadata attached to C's template.
C18_OwnCallbacksOnly ==
  /\ \A o \in Objects : \A e \in ran[o] : e[2] = callee[o].class
  /\ \A r \in Records :
       rec[r].state # "none" => rec[r].drop = callee[rec[r].instance].class
  /\ inv.pc # "idle" => inv.class = callee[inv.obj].class

\* C18 case: with two classes registered, the constructor of the second
\* one has run its callbacks.
C18_Witness ==
  \E o \in Objects :
    /\ callee[o].class = 2
    /\ mstate[1] = "live"
    /\ "construct" \in Kinds(o)
    /\ Returned(o)

\* The scopes the entry points in progress must hold, outermost first; the
\* loop runs one of its callbacks at a time, a shim runs inside it.
ActiveFrames ==
  (IF ehpc # "idle" THEN <<"drain">> ELSE <<>>)
  \o (IF \E t \in Tasks : tpc[t] \in {"complete0", "complete1"}
        THEN <<"task">> ELSE <<>>)
  \o (IF inv.pc # "idle" THEN <<"ctor">> ELSE <<>>)
  \o (IF ShimActive THEN <<"shim">> ELSE <<>>)

C20_DoubleDisposeDetected ==
  (\E h \in Handles : disposeCalls[h] >= 2) => fatal

\* C21: Neon_Mem_SameHandle is an identity test: a handle is the same as
\* itself, the result does not depend on the order of the arguments, and
\* handles to two distinct objects are not the same even when the objects
\* have the same structure; the call returns that result.
C21_SameHandleIdentity ==
  /\ \A v1, v2 \in DOMAIN locals :
       /\ SameHandle(locals[v1], locals[v1])
       /\ SameHandle(locals[v1], locals[v2]) = SameHandle(locals[v2], locals[v1])
       /\ (locals[v1] # 0 /\ locals[v2] # 0 /\ locals[v1] # locals[v2]) =>
            ~SameHandle(locals[v1], locals[v2])
       /\ (locals[v1] # 0 /\ locals[v1] = locals[v2]) =>
            SameHandle(locals[v1], locals[v2])
  /\ sameResult[1] # 0 =>
       sameResult[3] = (locals[sameResult[1]] = locals[sameResult[2]])

\* C21 case: the call has compared handles to two distinct objects of the
\* same structure, while two handles to one object exist.
C21_Witness ==
  /\ sameResult[1] # 0
  /\ locals[sameResult[1]] # 0
  /\ locals[sameResult[2]] # 0
  /\ locals[sameResult[1]] # locals[sameResult[2]]
  /\ StructureOf(locals[sameResult[1]]) = StructureOf(locals[sameResult[2]])
  /\ \E v1, v2 \in DOMAIN locals : v1 # v2 /\ locals[v1] = locals[v2]

\* C22: mutex_ is never held while a handler runs: the drain loop holds it
\* only inside the block that tests and swaps handlers_, so whenever a
\* handler is running a schedule() call, from a foreign thread or from the
\* handler itself, can take the mutex and push at once.
C22_MutexFreeInHandler ==
  /\ ehpc \in {"invoke", "inhandler"} => mutex_ = NoThread
  /\ (ehpc = "inhandler" /\ cpc = "idle" /\ nextItem < MaxItems) =>
       /\ ENABLED HandlerSchedule
       /\ \A t \in Threads : spc[t] = "idle" => ENABLED SchedulePush(t)

\* C22 case: while a handler runs, a foreign thread has pushed an item and
\* the handler has pushed one too.
C22_Witness ==
  /\ ehpc = "inhandler"
  /\ Len(handlers_) >= 2
  /\ \E t \in Threads : spc[t] = "send"

\* C23: once close() has set the close flag, the EventHandler's async
\* handle is eventually closed and the EventHandler deleted, also when
\* nothing was pending: the uv_async_send of close() wakes the loop.
C23_EventuallyFreed ==
  close_ ~> (asyncState = "freed")

\* C23 case: an EventHandler on which nothing was ever scheduled has been
\* closed and deleted.
C23_Witness ==
  /\ asyncState = "freed"
  /\ nextItem = 0
  /\ cpc = "done"

Phase ==
  IF asyncState # "active" THEN 3
  ELSE IF close_ THEN 2
  ELSE 1

\* C24: the life of an EventHandler only moves forward, from open to close
\* requested to released to deleted; the close flag is never cleared, the
\* async handle is closed only when close() was requested, and once closed
\* it is never active or closed again.
C24_LifecycleMonotone ==
  [][/\ Phase' >= Phase
     /\ close_ => close_'
     /\ asyncState # asyncState' =>
          \/ asyncState = "active" /\ asyncState' = "closing" /\ close_
          \/ asyncState = "closing" /\ asyncState' = "freed"]_vars

\* C24 case: the EventHandler went through all its phases after delivering
\* an item.
C24_Witness ==
  /\ asyncState = "freed"
  /\ close_
  /\ \E i \in Items : invoked[i] = 1

\* C25: in a `new` invocation whose allocation succeeded, when the
\* construct callback is about to run or is running, internal field 0 of the
\* object holds a live record bound to that object with the allocated
\* internals (not the internals pointer itself), and getInternals on the
\* object from inside the callback returned the allocated pointer.
C25_RecordInSlotBeforeConstruct ==
  inv.pc = "bound" =>
    /\ slot[inv.obj] \in Records
    /\ rec[slot[inv.obj]].state = "live"
    /\ rec[slot[inv.obj]].instance = inv.obj
    /\ rec[slot[inv.obj]].internals = allocated[inv.obj]
    /\ (lastResult[1] = "internals" /\ lastResult[2] = inv.obj) =>
         lastResult[3] = allocated[inv.obj]

\* C26: the complete callback and the JS callback of a Task run with the
\* context that was current when the Task was scheduled, whatever context
\* was current on the runtime thread when the delivery started, and once
\* Task::complete has returned the context that was current before the
\* delivery is current again.
C26_SavedContext ==
  \A t \in Tasks :
    /\ realm[t].complete # NoContext => realm[t].complete = realm[t].scheduled
    /\ realm[t].js # NoContext => realm[t].js = realm[t].scheduled
    /\ tpc[t] \in {"complete0", "complete1"} =>
         CurrentContext = realm[t].scheduled
    /\ tpc[t] = "complete2" =>
         /\ CurrentContext = realm[t].before
         /\ Len(entered) = 1

\* C26 case: a Task scheduled in one realm was delivered while another
\* realm was current, and Task::complete has returned.
C26_Witness ==
  \E t \in Tasks :
    /\ tpc[t] = "complete2"
    /\ realm[t].scheduled # realm[t].before
    /\ realm[t].js = realm[t].scheduled
    /\ realm[t].complete = realm[t].scheduled
    /\ CurrentContext = realm[t].before

\* C27: the order in which Tasks are delivered is not fixed by the order in
\* which they were scheduled: of two Tasks that pool threads are executing
\* at the same time either one can finish first, finished Tasks are handed
\* to the loop in the order they finish, and the loop delivers them in that
\* order, so a Task scheduled later can be delivered first.
C27_OrderNotFixed ==
  /\ [](\A w1, w2 \in Workers :
         (w1 # w2 /\ worker[w1] # 0 /\ worker[w2] # 0) =>
           ENABLED WorkerFinish(w1) /\ ENABLED WorkerFinish(w2))
  /\ [][/\ \A w \in Workers :
            (worker[w] # 0 /\ worker'[w] = 0) =>
              doneQueue' = Append(doneQueue, worker[w])
        /\ \A t \in Tasks :
            (tpc[t] = "executed" /\ tpc'[t] = "complete0") =>
              /\ t = Head(doneQueue)
              /\ doneQueue' = Tail(doneQueue)
        /\ Len(jsCalls') > Len(jsCalls) =>
              /\ jsCalls' = Append(jsCalls, jsCalls'[Len(jsCalls')])
              /\ tpc[jsCalls'[Len(jsCalls')].task] = "complete1"]_vars

\* C27 case: two Tasks were delivered, the one scheduled later first.
C27_Witness ==
  \E i, j \in 1..Len(jsCalls) :
    /\ i < j
    /\ jsCalls[i].task > jsCalls[j].task
    /\ tpc[jsCalls[i].task] = "deleted"
    /\ tpc[jsCalls[j].task] = "deleted"

\* C28: within one EventHandler the handlers are invoked in the order in
\* which their items were appended to handlers_ (items are numbered in that
\* order): an item is invoked only after every item appended before it, and
\* what is still waiting, in the local vector of the drain and then in
\* handlers_, waits in append order, over successive swaps and wakeups.
C28_InvokedInAppendOrder ==
  /\ \A i, j \in Items : (i < j /\ invoked[j] >= 1) => invoked[i] >= 1
  /\ LET q == handlers \o handlers_ IN
       /\ \A a, b \in 1..Len(q) : a < b => q[a] < q[b]
       /\ \A a \in 1..Len(q) : \A i \in Items :
            (i < q[a] /\ invoked[i] = 0) => \E b \in 1..a : q[b] = i

\* C28 case: an earlier item was invoked, the handler of a later one is
\* running in a later pass of the loop or a later wakeup, and an item
\* appended meanwhile waits in handlers_ for the next swap.
C28_Witness ==
  /\ ehpc = "inhandler"
  /\ Len(handlers) = 1
  /\ handlers_ # <<>>
  /\ Head(handlers) < Head(handlers_)
  /\ \E i \in Items : i < Head(handlers) /\ invoked[i] = 1
  /\ invoked[Head(handlers)] = 1

\* C29: as long as close() is not called, every item handed to schedule()
\* is eventually passed to its handler, also when its wakeup was coalesced
\* with another one or the item was appended while a drain was running.
C29_EventuallyInvoked ==
  \A i \in Items : (nextItem >= i) ~> (invoked[i] >= 1 \/ close_)

\* C29 case: close() was not called, every scheduled item has been passed
\* to its handler, and a wakeup is still pending although nothing is left:
\* the item it was sent for was picked up by the drain that was running.
C29_Witness ==
  /\ ~close_
  /\ nextItem >= 2
  /\ \A i \in 1..nextItem : invoked[i] = 1
  /\ handlers_ = <<>>
  /\ asyncPending
  /\ ehpc \in {"check", "idle"}

\* C30: every internals pointer that a successful allocate callback
\* returned has been dropped exactly once when its object has been
\* finalized, and not at all before, also when the construct callback that
\* followed the allocation failed: no such pointer is left undropped by the
\* finalization of its object and none is dropped twice.
C30_DroppedExactlyOnce ==
  /\ \A o \in Objects :
       allocated[o] # 0 =>
         dropCount[allocated[o]] = (IF ostate[o] = "collected" THEN 1 ELSE 0)
  /\ \A p \in Ptrs : dropCount[p] <= 1
  /\ \A o1, o2 \in Objects :
       (o1 # o2 /\ allocated[o1] # 0) => allocated[o1] # allocated[o2]

\* C30 case: the construct callback of an instance failed, the object was
\* finalized later and its internals were dropped once.
C30_Witness ==
  \E o \in Objects :
    /\ allocated[o] # 0
    /\ "constructFailed" \in Kinds(o)
    /\ ostate[o] = "collected"
    /\ dropCount[allocated[o]] = 1

====
